---------------------------- MODULE Spec2Model ----------------------------
(***************************************************************************)
(* A model of src/main.py: an interactive command-line program that asks   *)
(* an Extraction Service (yt_dlp) for a video's formats, lets the user     *)
(* pick a quality, builds a format expression and asks the Extraction      *)
(* Service to download it.                                                 *)
(*                                                                         *)
(* Python values are modelled as follows.  A dict is a function whose      *)
(* DOMAIN is the set of keys present, so an absent key is really absent.   *)
(* A list is a sequence.  A str that the program takes apart (a line read  *)
(* from stdin, a command-line argument) is a sequence of one-character     *)
(* strings; a str that is only compared or concatenated (a format_id, a    *)
(* codec name, a message) is a TLA+ string.  The process is a single       *)
(* thread; pc names the statement it is blocked at or about to execute.    *)
(***************************************************************************)
EXTENDS Integers, Sequences, FiniteSets, TLC

VARIABLES
    sys_argv,        \* sys.argv: the script name followed by the arguments
    pc,              \* position of the single thread of control
    ret,             \* who called get_quality_choice: where it returns to
    url,             \* download_video's parameter
    info,            \* result of get_video_info, NoneValue before the call
    video_formats,   \* download_video's sorted list of video formats
    only_progressive,\* get_quality_choice's flag in the current call
    qualities,       \* get_quality_choice's numbered candidates (keys 1..n)
    line,            \* the line input() returned most recently
    result,          \* value returned by the last get_quality_choice call
    chosen_format,   \* download_video's local
    best_audio,      \* download_video's local
    ffmpeg,          \* outcome of ffmpeg_available() in this run
    menu_choice,     \* the fallback menu's local `choice`
    format_str,      \* the format expression, "" while unset
    printed,         \* the set of messages written to stdout so far
    raised,          \* the uncaught exception that ended the run, "" if none
    exit_status,     \* the status the process ends with (0 unless sys.exit)
    extract_calls,   \* calls of ydl.extract_info made so far
    download_calls,  \* calls of ydl.download made so far
    download_arg,    \* the 'format' option the download was invoked with
    extract_outcome, \* how ydl.extract_info ended: "", "info", "None", "DownloadError"
    download_outcome \* how ydl.download ended: "", "ok", "DownloadError"

vars == <<sys_argv, pc, ret, url, info, video_formats, only_progressive,
          qualities, line, result, chosen_format, best_audio, ffmpeg,
          menu_choice, format_str, printed, raised, exit_status,
          extract_calls, download_calls, download_arg, extract_outcome,
          download_outcome>>

-----------------------------------------------------------------------------
(* Bounds of the model.                                                    *)

\* longest format list the Extraction Service returns in the full program
MaxFormats == 3
\* longest format list given to the pure functions checked on their own
MaxListLen == 3
\* longest line typed at the quality prompt checked on its own
MaxLineLen == 2
\* most command-line arguments in the full program
MaxMainArgs == 2
\* most command-line arguments, and longest argument, for the URL handling
MaxArgs == 3
MaxPieceLen == 2
\* formats in a list on which the quality is chosen a second time
MaxRechoiceLen == 4

-----------------------------------------------------------------------------
(* Python values.                                                          *)

\* Python's None where a dict (a format, the video info) is expected
NoneValue == [py_none |-> TRUE]
\* Python's None as the value of the numeric key 'abr'
AbrNone == -1

\* d.get(k, default)
Get(d, k, default) == IF k \in DOMAIN d THEN d[k] ELSE default

\* f.get('vcodec') != 'none' : an absent key gives None, which differs too
HasVideo(f) == ~("vcodec" \in DOMAIN f /\ f["vcodec"] = "none")
\* f.get('acodec') != 'none'
HasAudio(f) == ~("acodec" \in DOMAIN f /\ f["acodec"] = "none")

\* the truth value of a dict-or-None: None and the empty dict are falsy
Truthy(d) == d # NoneValue /\ DOMAIN d # {}

Reverse(s) == [i \in 1..Len(s) |-> s[Len(s) + 1 - i]]

-----------------------------------------------------------------------------
(* get_best_audio_format.                                                  *)

\* the filter of the list comprehension
IsAudioOnly(f) == ~HasVideo(f) /\ HasAudio(f)

\* the key of max(): x.get('abr', 0) or 0
AbrKey(f) ==
    LET v == Get(f, "abr", 0)
    IN  IF v = AbrNone \/ v = 0 THEN 0 ELSE v

\* MaxFrom replacing the running best on an equal key: the last maximum wins
RECURSIVE MaxFrom_LastWins(_, _)
MaxFrom_LastWins(best, s) ==
    IF s = <<>> THEN best
    ELSE IF AbrKey(Head(s)) >= AbrKey(best)
         THEN MaxFrom_LastWins(Head(s), Tail(s))
         ELSE MaxFrom_LastWins(best, Tail(s))

\* Python's max(s, key=...) on a non-empty list: the running best is replaced
\* only by a strictly greater key, so the first maximum wins
RECURSIVE MaxFrom(_, _)
MaxFrom(best, s) ==
    IF s = <<>> THEN best
    ELSE IF AbrKey(Head(s)) > AbrKey(best) THEN MaxFrom(Head(s), Tail(s))
         ELSE MaxFrom(best, Tail(s))

get_best_audio_format(formats) ==
    LET audio_formats == SelectSeq(formats, IsAudioOnly)
    IN  IF audio_formats = <<>> THEN NoneValue
        ELSE MaxFrom(Head(audio_formats), Tail(audio_formats))

-----------------------------------------------------------------------------
(* The sort of download_video and the enumeration of get_quality_choice.   *)

\* the sort key (x.get('height', 0), x.get('fps', 0))
SortKey(f) == <<Get(f, "height", 0), Get(f, "fps", 0)>>

\* Python's tuple comparison a < b on pairs
TupleLess(a, b) == a[1] < b[1] \/ (a[1] = b[1] /\ a[2] < b[2])

\* x put into an ascending list after every element not greater than it
RECURSIVE InsertStable(_, _)
InsertStable(s, x) ==
    IF s = <<>> THEN <<x>>
    ELSE IF TupleLess(SortKey(x), SortKey(Head(s))) THEN <<x>> \o s
         ELSE <<Head(s)>> \o InsertStable(Tail(s), x)

\* a stable ascending sort by SortKey, as list.sort(key=...) is
RECURSIVE SortAscending(_)
SortAscending(s) ==
    IF s = <<>> THEN <<>>
    ELSE InsertStable(SortAscending(SubSeq(s, 1, Len(s) - 1)), s[Len(s)])

\* a sort that reverses only after sorting: ties come out in reverse order
SortReverse_ReverseAfter(s) == Reverse(SortAscending(s))

\* list.sort(key=..., reverse=True): CPython reverses the list, sorts it
\* ascending and stable, and reverses it again
SortReverse(s) == Reverse(SortAscending(Reverse(s)))

\* lines 76-78 of download_video
SortedVideoFormats(formats) == SortReverse(SelectSeq(formats, HasVideo))

\* the test of get_quality_choice's loop over formats
\* Listed with the restriction inverted: with only_progressive the formats that
\* have an audio codec are the ones skipped
Listed_RestrictionInverted(f, progressive) ==
    HasVideo(f) /\ ~(progressive /\ HasAudio(f))

Listed(f, progressive) == HasVideo(f) /\ ~(progressive /\ ~HasAudio(f))

\* get_quality_choice's dict `qualities`: its keys are 1..n, so it is the
\* sequence of the formats that are numbered and printed
RECURSIVE EnumerateQualities(_, _)
EnumerateQualities(formats, progressive) ==
    IF formats = <<>> THEN <<>>
    ELSE IF Listed(Head(formats), progressive)
         THEN <<Head(formats)>> \o EnumerateQualities(Tail(formats), progressive)
         ELSE EnumerateQualities(Tail(formats), progressive)

-----------------------------------------------------------------------------
(* Strings the program takes apart.                                        *)

Digits == {"0", "1", "2", "3", "9"}
Whitespace == {" "}

DigitValue(c) ==
    CASE c = "0" -> 0 [] c = "1" -> 1 [] c = "2" -> 2 [] c = "3" -> 3
      [] c = "9" -> 9

\* str.strip(): leading and trailing whitespace removed
RECURSIVE LStrip(_)
LStrip(s) ==
    IF s # <<>> /\ Head(s) \in Whitespace THEN LStrip(Tail(s)) ELSE s

Strip(s) == Reverse(LStrip(Reverse(LStrip(s))))

\* the value of a non-empty string of digits, most significant first
RECURSIVE DecimalValue(_)
DecimalValue(ds) ==
    IF ds = <<>> THEN 0
    ELSE 10 * DecimalValue(SubSeq(ds, 1, Len(ds) - 1)) + DigitValue(ds[Len(ds)])

AllDigits(s) == s # <<>> /\ \A i \in 1..Len(s) : s[i] \in Digits

\* a parse that drops the sign: "-1" reads as 1
ParseInt_SignDropped(s) ==
    LET t == Strip(s)
        signed == t # <<>> /\ Head(t) \in {"-", "+"}
        body == IF signed THEN Tail(t) ELSE t
    IN  IF AllDigits(body)
        THEN [ok |-> TRUE, val |-> DecimalValue(body)]
        ELSE [ok |-> FALSE, val |-> 0]

\* int(s) on a str: surrounding whitespace is ignored, one sign is allowed,
\* then digits only; anything else raises ValueError (ok = FALSE)
ParseInt(s) ==
    LET t == Strip(s)
        signed == t # <<>> /\ Head(t) \in {"-", "+"}
        body == IF signed THEN Tail(t) ELSE t
    IN  IF AllDigits(body)
        THEN [ok |-> TRUE,
              val |-> IF signed /\ Head(t) = "-" THEN 0 - DecimalValue(body)
                      ELSE DecimalValue(body)]
        ELSE [ok |-> FALSE, val |-> 0]

\* '&'.join(args)
RECURSIVE JoinAmp(_)
JoinAmp(args) ==
    IF args = <<>> THEN <<>>
    ELSE IF Len(args) = 1 THEN args[1]
         ELSE args[1] \o <<"&">> \o JoinAmp(Tail(args))

\* a reconstruction that joins the arguments with nothing between them
RECURSIVE Concatenate(_)
Concatenate(args) ==
    IF args = <<>> THEN <<>> ELSE Head(args) \o Concatenate(Tail(args))

ReconstructUrl_NoSeparator(argv) ==
    IF Len(argv) = 2 THEN argv[2] ELSE Concatenate(Tail(argv))

\* lines 147-150: the URL handed to download_video
ReconstructUrl(argv) ==
    IF Len(argv) = 2 THEN argv[2] ELSE JoinAmp(Tail(argv))

\* the test off by one: len(sys.argv) < 1
TooFewArguments_OffByOne(argv) == Len(argv) < 1

\* line 140: len(sys.argv) < 2
TooFewArguments(argv) == Len(argv) < 2

\* line 57: `choice in qualities`, the keys of qualities being 1..n
ValidChoice(choice, q) == choice \in 1..Len(q)

\* str(n) for the small numbers the program prints
NumStr(n) == <<"0", "1", "2", "3", "4", "5", "6", "7", "8", "9">>[n + 1]

-----------------------------------------------------------------------------
(* The format expression.                                                  *)

\* line 89: best_audio and chosen_format.get('acodec') == 'none'
NeedsMerge(audio, chosen) == Truthy(audio) /\ ~HasAudio(chosen)

\* MergeOrBestExpr without the "/bestaudio" alternative
MergeOrBestExpr_NoAlternative(chosen, audio) ==
    IF Truthy(audio) /\ ~HasAudio(chosen)
    THEN chosen["format_id"] \o "+" \o audio["format_id"]
    ELSE chosen["format_id"] \o "/best"

\* lines 118-121
MergeOrBestExpr(chosen, audio) ==
    IF NeedsMerge(audio, chosen)
    THEN chosen["format_id"] \o "+" \o audio["format_id"] \o "/bestaudio"
    ELSE chosen["format_id"] \o "/best"

\* VideoOnlyExpr still asking for the merge: option 1 builds the expression
\* of line 119
VideoOnlyExpr_StillMerging(chosen) ==
    chosen["format_id"] \o "+" \o best_audio["format_id"] \o "/bestaudio"

\* line 99
VideoOnlyExpr(chosen) == chosen["format_id"]

\* line 108
ProgressiveExpr(chosen) == chosen["format_id"] \o "/best"

-----------------------------------------------------------------------------
(* Messages written to stdout.                                             *)

UsageText == "Usage: python script.py <YouTube URL>"
FetchErrorText == "Error fetching video info: "
QualityHeader == "Available video qualities:"
NoQualitiesText == "No matching qualities available."
QualityPrompt == "Enter the number of your preferred quality: "
InvalidNumberText == "Please enter a valid number."
OutOfRangeText(n) ==
    "Invalid choice. Please enter a number between 1 and " \o NumStr(n) \o "."
NoFormatText == "No format chosen, aborting."
MenuText == "Merging video and audio requires ffmpeg. Options:"
MenuPrompt == "Enter 1, 2 or 3: "
NoProgressiveText ==
    "No progressive formats available. Please choose another option."
InstallText == "Please install ffmpeg and re-run the script."
InvalidMenuText == "Invalid choice."
DownloadingText(title, chosen) ==
    "Downloading: " \o title \o " (" \o Get(chosen, "resolution", "Unknown")
        \o ")"
CompleteText(title) == "Download complete: " \o title
FailedText == "Download failed: "

-----------------------------------------------------------------------------
(* The inputs the environment supplies.                                    *)

\* all sequences over S of length at most n
SeqsUpTo(S, n) == UNION {[1..k -> S] : k \in 0..n}

\* format records as YouTube advertises them
F137 == [format_id |-> "137", vcodec |-> "avc1", acodec |-> "none",
         height |-> 1080, fps |-> 30, resolution |-> "1920x1080"]
F22 == [format_id |-> "22", vcodec |-> "avc1", acodec |-> "mp4a",
        height |-> 720, fps |-> 30, abr |-> 192, resolution |-> "1280x720"]
F18 == [format_id |-> "18", vcodec |-> "avc1", acodec |-> "mp4a",
        height |-> 360, fps |-> 30, abr |-> 96]
F140 == [format_id |-> "140", vcodec |-> "none", acodec |-> "mp4a",
         abr |-> 128]
F251 == [format_id |-> "251", vcodec |-> "none", acodec |-> "opus",
         abr |-> 160]
Catalogue == {F137, F22, F18, F140, F251}

\* the format lists of the full program: distinct records of the catalogue
CatalogueLists ==
    {s \in SeqsUpTo(Catalogue, MaxFormats) :
        \A i, j \in 1..Len(s) : i # j => s[i] # s[j]}

Titles == {"Clip A", "Clip B"}

ScriptName == <<"main.py">>
UrlChars == {"v", "&"}
\* command lines of the full program
MainArgvs == {<<ScriptName>> \o a : a \in SeqsUpTo({<<"v">>}, MaxMainArgs)}
\* command lines for the URL handling: any arguments over UrlChars
AllArgvs ==
    {<<ScriptName>> \o a : a \in SeqsUpTo(SeqsUpTo(UrlChars, MaxPieceLen), MaxArgs)}

\* lines the user types in the full program: "", "a", "0", "1", "2", "3",
\* "9", "-1" and " 2"
MainLines ==
    {<<>>, <<"a">>, <<"0">>, <<"1">>, <<"2">>, <<"3">>, <<"9">>,
     <<"-", "1">>, <<" ", "2">>}
\* lines typed at the quality prompt checked on its own: every line over
\* two digits that number a candidate, 0, a sign, a blank and a letter
PromptChars == {"0", "1", "2", "-", " ", "a"}
PromptLines == SeqsUpTo(PromptChars, MaxLineLen)

\* format lists for the pure functions: every combination of the attributes
\* they read, the format_id being the position in the list
Opt(S) == {<<>>} \cup {<<x>> : x \in S}
WithKey(d, k, opt) == IF opt = <<>> THEN d ELSE d @@ (k :> opt[1])
PositionId(i) == "f" \o NumStr(i)
Identified(shapes) ==
    [i \in 1..Len(shapes) |-> shapes[i] @@ ("format_id" :> PositionId(i))]

HeightVals == {0, 720}
FpsVals == {0, 30}
VideoShapes ==
    {WithKey(WithKey([vcodec |-> "avc1", acodec |-> a], "height", h), "fps", f) :
        a \in {"none", "mp4a"}, h \in Opt(HeightVals), f \in Opt(FpsVals)}
QualityLists ==
    {Identified(s) :
        s \in SeqsUpTo(VideoShapes \cup {[vcodec |-> "none", acodec |-> "mp4a"]},
                       MaxListLen)}

AbrVals == {AbrNone, 0, 64, 128}
AudioShapes ==
    {WithKey([vcodec |-> "none", acodec |-> "mp4a"], "abr", b) : b \in Opt(AbrVals)}
        \cup {[vcodec |-> "avc1", acodec |-> "mp4a", abr |-> 256],
              [vcodec |-> "none", acodec |-> "none"]}
AudioLists == {Identified(s) : s \in SeqsUpTo(AudioShapes, MaxListLen)}

\* format lists for the second, restricted choice: a video-only format, two
\* progressive ones, a video format without the key acodec, an audio-only one
RechoiceShapes ==
    {[vcodec |-> "avc1", acodec |-> "none", height |-> 720],
     [vcodec |-> "avc1", acodec |-> "mp4a", height |-> 720],
     [vcodec |-> "avc1", acodec |-> "mp4a", height |-> 360],
     [vcodec |-> "avc1", height |-> 360],
     [vcodec |-> "none", acodec |-> "mp4a", abr |-> 128]}
RechoiceLists == {Identified(s) : s \in SeqsUpTo(RechoiceShapes, MaxRechoiceLen)}
\* the numbers typed at the first prompt, and the menu option typed after it
RechoiceLines == {<<"1">>, <<"2">>, <<"3">>}
RechoiceOption == <<"2">>

-----------------------------------------------------------------------------
(* The program.                                                            *)

\* the state in which control is at `at` with the given locals and nothing
\* printed, read or called yet
Entered(argv, at, return_to, video_info, vformats, progressive) ==
    /\ sys_argv = argv
    /\ pc = at
    /\ ret = return_to
    /\ url = <<>>
    /\ info = video_info
    /\ video_formats = vformats
    /\ only_progressive = progressive
    /\ qualities = <<>>
    /\ line = <<>>
    /\ result = NoneValue
    /\ chosen_format = NoneValue
    /\ best_audio = NoneValue
    /\ ffmpeg = "unchecked"
    /\ menu_choice = <<>>
    /\ format_str = ""
    /\ printed = {}
    /\ raised = ""
    /\ exit_status = 0
    /\ extract_calls = 0
    /\ download_calls = 0
    /\ download_arg = ""
    /\ extract_outcome = ""
    /\ download_outcome = ""

\* a fresh process started with the command line argv
Start(argv) == Entered(argv, "main", "returned", NoneValue, <<>>, FALSE)

Init == \E argv \in MainArgvs : Start(argv)

\* lines 140-144: too few arguments
Usage ==
    /\ pc = "main"
    /\ TooFewArguments(sys_argv)
    /\ printed' = printed \cup {UsageText}
    /\ exit_status' = 1
    /\ pc' = "exited"
    /\ UNCHANGED <<sys_argv, ret, url, info, video_formats, only_progressive,
                   qualities, line, result, chosen_format, best_audio, ffmpeg,
                   menu_choice, format_str, raised, extract_calls,
                   download_calls, download_arg,
                   extract_outcome, download_outcome>>

\* lines 146-151: the call of download_video
CallDownloadVideo ==
    /\ pc = "main"
    /\ ~TooFewArguments(sys_argv)
    /\ url' = ReconstructUrl(sys_argv)
    /\ pc' = "fetch_info"
    /\ UNCHANGED <<sys_argv, ret, info, video_formats, only_progressive,
                   qualities, line, result, chosen_format, best_audio, ffmpeg,
                   menu_choice, format_str, printed, raised, exit_status,
                   extract_calls, download_calls, download_arg,
                   extract_outcome, download_outcome>>

\* lines 72 and 13-16: extract_info returns the video info
FetchInfoOk ==
    /\ pc = "fetch_info"
    /\ \E title \in Titles, formats \in CatalogueLists :
            info' = [title |-> title, formats |-> formats]
    /\ extract_calls' = extract_calls + 1
    /\ extract_outcome' = "info"
    /\ pc' = "choose_quality"
    /\ UNCHANGED <<sys_argv, ret, url, video_formats, only_progressive,
                   qualities, line, result, chosen_format, best_audio, ffmpeg,
                   menu_choice, format_str, printed, raised, exit_status,
                   download_calls, download_arg,
                   download_outcome>>

\* lines 72-74: extract_info returns nothing and download_video returns
FetchInfoNone ==
    /\ pc = "fetch_info"
    /\ info' = NoneValue
    /\ extract_calls' = extract_calls + 1
    /\ extract_outcome' = "None"
    /\ pc' = "exited"
    /\ UNCHANGED <<sys_argv, ret, url, video_formats, only_progressive,
                   qualities, line, result, chosen_format, best_audio, ffmpeg,
                   menu_choice, format_str, printed, raised, exit_status,
                   download_calls, download_arg,
                   download_outcome>>

\* FetchInfoFail without sys.exit(1): get_video_info prints the error and
\* returns None, and download_video returns at line 74
FetchInfoFail_NoExit ==
    /\ pc = "fetch_info"
    /\ extract_calls' = extract_calls + 1
    /\ extract_outcome' = "DownloadError"
    /\ printed' = printed \cup {FetchErrorText}
    /\ pc' = "exited"
    /\ UNCHANGED <<sys_argv, ret, url, info, video_formats, only_progressive,
                   qualities, line, result, chosen_format, best_audio, ffmpeg,
                   menu_choice, format_str, raised, exit_status,
                   download_calls, download_arg, download_outcome>>

\* lines 17-19: extract_info raises DownloadError
FetchInfoFail ==
    /\ pc = "fetch_info"
    /\ extract_calls' = extract_calls + 1
    /\ extract_outcome' = "DownloadError"
    /\ printed' = printed \cup {FetchErrorText}
    /\ exit_status' = 1
    /\ pc' = "exited"
    /\ UNCHANGED <<sys_argv, ret, url, info, video_formats, only_progressive,
                   qualities, line, result, chosen_format, best_audio, ffmpeg,
                   menu_choice, format_str, raised, download_calls,
                   download_arg,
                   download_outcome>>

\* lines 76-80: sort the video formats and call get_quality_choice
ChooseQuality ==
    /\ pc = "choose_quality"
    /\ video_formats' = SortedVideoFormats(info["formats"])
    /\ only_progressive' = FALSE
    /\ ret' = "after_first"
    /\ pc' = "enumerate"
    /\ UNCHANGED <<sys_argv, url, info, qualities, line, result,
                   chosen_format, best_audio, ffmpeg, menu_choice, format_str,
                   printed, raised, exit_status, extract_calls,
                   download_calls, download_arg,
                   extract_outcome, download_outcome>>

\* Enumerate without the test `if not qualities`: it prompts even with no
\* candidate
Enumerate_NoEmptyTest ==
    /\ pc = "enumerate"
    /\ qualities' = EnumerateQualities(video_formats, only_progressive)
    /\ printed' = printed \cup {QualityHeader, QualityPrompt}
    /\ pc' = "quality_prompt"
    /\ UNCHANGED <<sys_argv, ret, url, info, video_formats, only_progressive,
                   line, result, chosen_format, best_audio, ffmpeg,
                   menu_choice, format_str, raised, exit_status,
                   extract_calls, download_calls, download_arg,
                   extract_outcome, download_outcome>>

\* lines 35-52 of get_quality_choice: number and print the candidates; with
\* none, return None, otherwise block in input()
Enumerate ==
    /\ pc = "enumerate"
    /\ qualities' = EnumerateQualities(video_formats, only_progressive)
    /\ IF qualities' = <<>>
       THEN /\ printed' = printed \cup {QualityHeader, NoQualitiesText}
            /\ result' = NoneValue
            /\ pc' = ret
       ELSE /\ printed' = printed \cup {QualityHeader, QualityPrompt}
            /\ result' = result
            /\ pc' = "quality_prompt"
    /\ UNCHANGED <<sys_argv, ret, url, info, video_formats, only_progressive,
                   line, chosen_format, best_audio, ffmpeg, menu_choice,
                   format_str, raised, exit_status, extract_calls,
                   download_calls, download_arg,
                   extract_outcome, download_outcome>>

\* lines 54-62: one turn of the prompt loop on the line l
ReadQuality(l) ==
    /\ pc = "quality_prompt"
    /\ line' = l
    /\ LET choice == ParseInt(l)
       IN  IF ~choice.ok
           THEN /\ printed' = printed \cup {InvalidNumberText}
                /\ UNCHANGED <<result, pc>>
           ELSE IF ValidChoice(choice.val, qualities)
           THEN /\ result' = qualities[choice.val]
                /\ pc' = ret
                /\ UNCHANGED printed
           ELSE /\ printed' = printed \cup {OutOfRangeText(Len(qualities))}
                /\ UNCHANGED <<result, pc>>
    /\ UNCHANGED <<sys_argv, ret, url, info, video_formats, only_progressive,
                   qualities, chosen_format, best_audio, ffmpeg, menu_choice,
                   format_str, raised, exit_status, extract_calls,
                   download_calls, download_arg,
                   extract_outcome, download_outcome>>

\* input() at end of file: EOFError is caught nowhere and ends the process
ReadEOF ==
    /\ pc \in {"quality_prompt", "menu"}
    /\ raised' = "EOFError"
    /\ exit_status' = 1
    /\ pc' = "exited"
    /\ UNCHANGED <<sys_argv, ret, url, info, video_formats, only_progressive,
                   qualities, line, result, chosen_format, best_audio, ffmpeg,
                   menu_choice, format_str, printed, extract_calls,
                   download_calls, download_arg,
                   extract_outcome, download_outcome>>

\* lines 80-90 and 117-128: back in download_video after the first choice
AfterFirstChoice ==
    /\ pc = "after_first"
    /\ chosen_format' = result
    /\ best_audio' = get_best_audio_format(info["formats"])
    /\ IF ~Truthy(chosen_format')
       THEN /\ printed' = printed \cup {NoFormatText}
            /\ pc' = "exited"
            /\ UNCHANGED format_str
       ELSE IF NeedsMerge(best_audio', chosen_format')
       THEN /\ pc' = "check_ffmpeg"
            /\ UNCHANGED <<printed, format_str>>
       ELSE /\ format_str' = MergeOrBestExpr(chosen_format', best_audio')
            /\ printed' = printed
                    \cup {DownloadingText(info["title"], chosen_format')}
            /\ pc' = "download"
    /\ UNCHANGED <<sys_argv, ret, url, info, video_formats, only_progressive,
                   qualities, line, result, ffmpeg, menu_choice, raised,
                   exit_status, extract_calls, download_calls, download_arg,
                   extract_outcome, download_outcome>>

\* lines 90 and 117-128: ffmpeg is on PATH
FfmpegAvailable ==
    /\ pc = "check_ffmpeg"
    /\ ffmpeg' = "available"
    /\ format_str' = MergeOrBestExpr(chosen_format, best_audio)
    /\ printed' = printed \cup {DownloadingText(info["title"], chosen_format)}
    /\ pc' = "download"
    /\ UNCHANGED <<sys_argv, ret, url, info, video_formats, only_progressive,
                   qualities, line, result, chosen_format, best_audio,
                   menu_choice, raised, exit_status, extract_calls,
                   download_calls, download_arg,
                   extract_outcome, download_outcome>>

\* lines 90-97: ffmpeg is not on PATH and the fallback menu is shown
FfmpegMissing ==
    /\ pc = "check_ffmpeg"
    /\ ffmpeg' = "missing"
    /\ printed' = printed \cup {MenuText, MenuPrompt}
    /\ pc' = "menu"
    /\ UNCHANGED <<sys_argv, ret, url, info, video_formats, only_progressive,
                   qualities, line, result, chosen_format, best_audio,
                   menu_choice, format_str, raised, exit_status,
                   extract_calls, download_calls, download_arg,
                   extract_outcome, download_outcome>>

\* lines 97-116: one turn of the menu loop on the line l
ReadMenu(l) ==
    /\ pc = "menu"
    /\ line' = l
    /\ menu_choice' = Strip(l)
    /\ IF menu_choice' = <<"1">>
       THEN /\ format_str' = VideoOnlyExpr(chosen_format)
            /\ printed' = printed
                    \cup {DownloadingText(info["title"], chosen_format)}
            /\ pc' = "download"
            /\ UNCHANGED <<only_progressive, ret>>
       ELSE IF menu_choice' = <<"2">>
       THEN /\ only_progressive' = TRUE
            /\ ret' = "after_progressive"
            /\ pc' = "enumerate"
            /\ UNCHANGED <<format_str, printed>>
       ELSE IF menu_choice' = <<"3">>
       THEN /\ printed' = printed \cup {InstallText}
            /\ pc' = "exited"
            /\ UNCHANGED <<format_str, only_progressive, ret>>
       ELSE /\ printed' = printed \cup {InvalidMenuText}
            /\ UNCHANGED <<pc, format_str, only_progressive, ret>>
    /\ UNCHANGED <<sys_argv, url, info, video_formats, qualities, result,
                   chosen_format, best_audio, ffmpeg, raised, exit_status,
                   extract_calls, download_calls, download_arg,
                   extract_outcome, download_outcome>>

\* AfterProgressive giving up when no progressive format exists: it ends the
\* run instead of going back to the menu
AfterProgressive_AbortOnNone ==
    /\ pc = "after_progressive"
    /\ IF Truthy(result)
       THEN /\ chosen_format' = result
            /\ best_audio' = get_best_audio_format(info["formats"])
            /\ format_str' = ProgressiveExpr(chosen_format')
            /\ printed' = printed
                    \cup {DownloadingText(info["title"], chosen_format')}
            /\ pc' = "download"
       ELSE /\ printed' = printed \cup {NoProgressiveText}
            /\ pc' = "exited"
            /\ UNCHANGED <<chosen_format, best_audio, format_str>>
    /\ UNCHANGED <<sys_argv, ret, url, info, video_formats, only_progressive,
                   qualities, line, result, ffmpeg, menu_choice, raised,
                   exit_status, extract_calls, download_calls, download_arg,
                   extract_outcome, download_outcome>>

\* AfterProgressive without the assignment of line 103's result to
\* chosen_format: the expression is built from the first selection
AfterProgressive_KeepsFirst ==
    /\ pc = "after_progressive"
    /\ IF Truthy(result)
       THEN /\ best_audio' = get_best_audio_format(info["formats"])
            /\ format_str' = ProgressiveExpr(chosen_format)
            /\ printed' = printed
                    \cup {DownloadingText(info["title"], chosen_format)}
            /\ pc' = "download"
            /\ UNCHANGED chosen_format
       ELSE /\ printed' = printed \cup {NoProgressiveText, MenuPrompt}
            /\ pc' = "menu"
            /\ UNCHANGED <<chosen_format, best_audio, format_str>>
    /\ UNCHANGED <<sys_argv, ret, url, info, video_formats, only_progressive,
                   qualities, line, result, ffmpeg, menu_choice, raised,
                   exit_status, extract_calls, download_calls, download_arg,
                   extract_outcome, download_outcome>>

\* AfterProgressive calling get_quality_choice again when it returned None,
\* instead of going back to the menu
AfterProgressive_CallsAgain ==
    /\ pc = "after_progressive"
    /\ IF Truthy(result)
       THEN /\ chosen_format' = result
            /\ best_audio' = get_best_audio_format(info["formats"])
            /\ format_str' = ProgressiveExpr(chosen_format')
            /\ printed' = printed
                    \cup {DownloadingText(info["title"], chosen_format')}
            /\ pc' = "download"
       ELSE /\ printed' = printed \cup {NoProgressiveText}
            /\ pc' = "enumerate"
            /\ UNCHANGED <<chosen_format, best_audio, format_str>>
    /\ UNCHANGED <<sys_argv, ret, url, info, video_formats, only_progressive,
                   qualities, line, result, ffmpeg, menu_choice, raised,
                   exit_status, extract_calls, download_calls, download_arg,
                   extract_outcome, download_outcome>>

\* lines 103-111 and 123-128: back in the menu after get_quality_choice
AfterProgressive ==
    /\ pc = "after_progressive"
    /\ IF Truthy(result)
       THEN /\ chosen_format' = result
            /\ best_audio' = get_best_audio_format(info["formats"])
            /\ format_str' = ProgressiveExpr(chosen_format')
            /\ printed' = printed
                    \cup {DownloadingText(info["title"], chosen_format')}
            /\ pc' = "download"
       ELSE /\ printed' = printed \cup {NoProgressiveText, MenuPrompt}
            /\ pc' = "menu"
            /\ UNCHANGED <<chosen_format, best_audio, format_str>>
    /\ UNCHANGED <<sys_argv, ret, url, info, video_formats, only_progressive,
                   qualities, line, result, ffmpeg, menu_choice, raised,
                   exit_status, extract_calls, download_calls, download_arg,
                   extract_outcome, download_outcome>>

\* lines 130-133: ydl.download returns
DownloadOk ==
    /\ pc = "download"
    /\ download_calls' = download_calls + 1
    /\ download_arg' = format_str
    /\ download_outcome' = "ok"
    /\ printed' = printed \cup {CompleteText(info["title"])}
    /\ pc' = "exited"
    /\ UNCHANGED <<sys_argv, ret, url, info, video_formats, only_progressive,
                   qualities, line, result, chosen_format, best_audio, ffmpeg,
                   menu_choice, format_str, raised, exit_status,
                   extract_calls,
                   extract_outcome>>

\* DownloadFail without sys.exit(1): the process ends with status 0
DownloadFail_NoExit ==
    /\ pc = "download"
    /\ download_calls' = download_calls + 1
    /\ download_arg' = format_str
    /\ download_outcome' = "DownloadError"
    /\ printed' = printed \cup {FailedText}
    /\ pc' = "exited"
    /\ UNCHANGED <<sys_argv, ret, url, info, video_formats, only_progressive,
                   qualities, line, result, chosen_format, best_audio, ffmpeg,
                   menu_choice, format_str, raised, exit_status,
                   extract_calls, extract_outcome>>

\* DownloadFail retrying instead of ending: after the error is printed the
\* download is attempted again
DownloadFail_Retry ==
    /\ pc = "download"
    /\ download_calls' = download_calls + 1
    /\ download_arg' = format_str
    /\ download_outcome' = "DownloadError"
    /\ printed' = printed \cup {FailedText}
    /\ pc' = "download"
    /\ UNCHANGED <<sys_argv, ret, url, info, video_formats, only_progressive,
                   qualities, line, result, chosen_format, best_audio, ffmpeg,
                   menu_choice, format_str, raised, exit_status,
                   extract_calls, extract_outcome>>

\* lines 130-136: ydl.download raises DownloadError
DownloadFail ==
    /\ pc = "download"
    /\ download_calls' = download_calls + 1
    /\ download_arg' = format_str
    /\ download_outcome' = "DownloadError"
    /\ printed' = printed \cup {FailedText}
    /\ exit_status' = 1
    /\ pc' = "exited"
    /\ UNCHANGED <<sys_argv, ret, url, info, video_formats, only_progressive,
                   qualities, line, result, chosen_format, best_audio, ffmpeg,
                   menu_choice, format_str, raised, extract_calls,
                   extract_outcome>>

Next ==
    \/ Usage
    \/ CallDownloadVideo
    \/ FetchInfoOk
    \/ FetchInfoNone
    \/ FetchInfoFail
    \/ ChooseQuality
    \/ Enumerate
    \/ \E l \in MainLines : ReadQuality(l)
    \/ ReadEOF
    \/ AfterFirstChoice
    \/ FfmpegAvailable
    \/ FfmpegMissing
    \/ \E l \in MainLines : ReadMenu(l)
    \/ AfterProgressive
    \/ DownloadOk
    \/ DownloadFail

Spec == Init /\ [][Next]_vars

\* The program under a user who answers and collaborators that return, run
\* without a URL and with one, the user typing a letter or one of the
\* numbers 1, 2 and 3 at either prompt.
FairArgvs == {<<ScriptName>>, <<ScriptName, <<"v">>>>}
FairLines == {<<"a">>, <<"1">>, <<"2">>, <<"3">>}
\* The steps the interpreter takes by itself:
ProgramStep ==
    \/ Usage
    \/ CallDownloadVideo
    \/ ChooseQuality
    \/ Enumerate
    \/ AfterFirstChoice
    \/ AfterProgressive
\* extract_info, shutil.which and ydl.download return or raise:
CollaboratorReturns ==
    \/ FetchInfoOk
    \/ FetchInfoNone
    \/ FetchInfoFail
    \/ FfmpegAvailable
    \/ FfmpegMissing
    \/ DownloadOk
    \/ DownloadFail
\* the user types a number of the list at the quality prompt (line 58):
SelectsQuality ==
    /\ pc = "quality_prompt"
    /\ line' \in FairLines
    /\ result' \in {qualities[k] : k \in 1..Len(qualities)}
    /\ pc' = ret
    /\ UNCHANGED <<sys_argv, ret, url, info, video_formats, only_progressive,
                   qualities, chosen_format, best_audio, ffmpeg, menu_choice,
                   format_str, printed, raised, exit_status, extract_calls,
                   download_calls, download_arg, extract_outcome,
                   download_outcome>>
\* the user types 1 or 3 at the menu, or 2 with a progressive format to
\* select (lines 98, 101-104, 112):
LeavesMenu ==
    \E l \in FairLines :
        /\ ReadMenu(l)
        /\ \/ menu_choice' \in {<<"1">>, <<"3">>}
           \/ /\ menu_choice' = <<"2">>
              /\ EnumerateQualities(video_formats, TRUE) # <<>>
InitFair == \E argv \in FairArgvs : Start(argv)
NextFair ==
    \/ Usage
    \/ CallDownloadVideo
    \/ FetchInfoOk
    \/ FetchInfoNone
    \/ FetchInfoFail
    \/ ChooseQuality
    \/ Enumerate
    \/ \E l \in FairLines : ReadQuality(l)
    \/ ReadEOF
    \/ AfterFirstChoice
    \/ FfmpegAvailable
    \/ FfmpegMissing
    \/ \E l \in FairLines : ReadMenu(l)
    \/ AfterProgressive
    \/ DownloadOk
    \/ DownloadFail
SpecFair ==
    /\ InitFair
    /\ [][NextFair]_vars
    /\ WF_vars(ProgramStep)
    /\ WF_vars(CollaboratorReturns)
    /\ WF_vars(SelectsQuality)
    /\ SF_vars(LeavesMenu)

-----------------------------------------------------------------------------
(* The functions on their own: each specification starts at the call of    *)
(* one function, with its arguments drawn from every input of the bounded  *)
(* sets, and runs the function's own actions.                              *)

\* the command line is parsed and download_video called: every command line
InitArgv == \E argv \in AllArgvs : Start(argv)
NextArgv == Usage \/ CallDownloadVideo
SpecArgv == InitArgv /\ [][NextArgv]_vars

\* get_best_audio_format(formats) called on every list of AudioLists
CallBestAudio ==
    /\ pc = "best_audio_call"
    /\ best_audio' = get_best_audio_format(info["formats"])
    /\ pc' = "returned"
    /\ UNCHANGED <<sys_argv, ret, url, info, video_formats, only_progressive,
                   qualities, line, result, chosen_format, ffmpeg,
                   menu_choice, format_str, printed, raised, exit_status,
                   extract_calls, download_calls, download_arg,
                   extract_outcome, download_outcome>>

InitAudio ==
    \E formats \in AudioLists :
        Entered(<<ScriptName>>, "best_audio_call", "returned",
                [title |-> "Clip A", formats |-> formats], <<>>, FALSE)
NextAudio == CallBestAudio
SpecAudio == InitAudio /\ [][NextAudio]_vars

\* download_video from the fetched info to its first prompt, on every list
\* of QualityLists
InitQuality ==
    \E formats \in QualityLists :
        Entered(<<ScriptName>>, "choose_quality", "returned",
                [title |-> "Clip A", formats |-> formats], <<>>, FALSE)
NextQuality == ChooseQuality \/ Enumerate
SpecQuality == InitQuality /\ [][NextQuality]_vars

\* get_quality_choice(formats) called on a sorted list of video formats, and
\* every line typed at its prompt
InitPrompt ==
    \E formats \in CatalogueLists :
        Entered(<<ScriptName>>, "enumerate", "returned", NoneValue,
                SortedVideoFormats(formats), FALSE)
NextPrompt ==
    \/ Enumerate
    \/ \E l \in PromptLines : ReadQuality(l)
    \/ ReadEOF
SpecPrompt == InitPrompt /\ [][NextPrompt]_vars

\* download_video from the fetched info through the first choice and the
\* menu to the second call of get_quality_choice, ffmpeg not being on PATH
\* and the user taking option 2, on every list of RechoiceLists
InitRechoice ==
    \E formats \in RechoiceLists :
        Entered(<<ScriptName>>, "choose_quality", "returned",
                [title |-> "Clip A", formats |-> formats], <<>>, FALSE)
NextRechoice ==
    \/ ChooseQuality
    \/ Enumerate
    \/ \E l \in RechoiceLines : ReadQuality(l)
    \/ AfterFirstChoice
    \/ FfmpegMissing
    \/ ReadMenu(RechoiceOption)
SpecRechoice == InitRechoice /\ [][NextRechoice]_vars

-----------------------------------------------------------------------------
(* The properties checked.  They are stated on the records the Extraction  *)
(* Service returned and on what the program printed and called, in terms   *)
(* of their own (the Stated... definitions), not of the program's helpers. *)

\* the bitrate of a format, an absent, None or zero abr counting as 0
StatedBitrate(f) ==
    IF "abr" \in DOMAIN f THEN (IF f["abr"] = AbrNone THEN 0 ELSE f["abr"]) ELSE 0

\* the positions of the audio-only entries of a list
StatedAudioOnly(fs) ==
    {i \in 1..Len(fs) : fs[i]["vcodec"] = "none" /\ fs[i]["acodec"] # "none"}

\* position i holds the best audio-only entry of fs: the first of those with
\* the maximum bitrate
StatedBestAudioAt(fs, i) ==
    /\ i \in StatedAudioOnly(fs)
    /\ \A j \in StatedAudioOnly(fs) :
          /\ StatedBitrate(fs[j]) <= StatedBitrate(fs[i])
          /\ j < i => StatedBitrate(fs[j]) < StatedBitrate(fs[i])

\* the expression the download must be invoked with
StatedExpression ==
    LET fs == info["formats"]
        video_id == chosen_format["format_id"]
    IN  IF menu_choice = <<"1">>
        THEN video_id
        ELSE IF chosen_format["acodec"] = "none" /\ StatedAudioOnly(fs) # {}
        THEN LET a == CHOOSE i \in 1..Len(fs) : StatedBestAudioAt(fs, i)
             IN  video_id \o "+" \o fs[a]["format_id"] \o "/bestaudio"
        ELSE video_id \o "/best"

\* C1: whenever the download has been invoked, the format expression it was
\* given is "<video_id>" if the user chose the video-only fallback in the
\* menu, else "<video_id>+<audio_id>/bestaudio" if the chosen format has no
\* audio and a best audio-only format exists, else "<video_id>/best".
C1_FormatExpression ==
    download_calls > 0 => download_arg = StatedExpression

\* C1 witness: 137 (no audio) chosen with 140 the best audio, downloaded as
\* "137+140/bestaudio".
C1_Witness ==
    /\ download_calls = 1
    /\ chosen_format["format_id"] = "137"
    /\ download_arg = "137+140/bestaudio"

\* further cases of C1 that are reached: "18/best" and, by the fallback, "137"
C1_ReachedBest == download_calls = 1 /\ download_arg = "18/best"
C1_ReachedVideoOnly ==
    download_calls = 1 /\ download_arg = "137" /\ ffmpeg = "missing"
C1_ReachedNoAudioBest ==
    /\ download_calls = 1 /\ download_arg = "137/best"
    /\ StatedAudioOnly(info["formats"]) = {}

\* C2: get_best_audio_format returns None exactly when the list has no
\* audio-only entry (vcodec 'none', acodec not 'none'), and otherwise the
\* first, in list order, of the audio-only entries of maximum bitrate.
C2_BestAudio ==
    pc = "returned" =>
        LET fs == info["formats"]
        IN  /\ (best_audio = NoneValue) <=> (StatedAudioOnly(fs) = {})
            /\ best_audio # NoneValue =>
                  \E i \in 1..Len(fs) :
                      StatedBestAudioAt(fs, i) /\ best_audio = fs[i]

\* C2 witness: two audio-only entries share the maximum, positive bitrate,
\* a third has none, and the earlier of the two was returned.
C2_Witness ==
    /\ pc = "returned"
    /\ LET fs == info["formats"]
       IN  \E i, j, k \in StatedAudioOnly(fs) :
              /\ i < j
              /\ best_audio = fs[i]
              /\ StatedBitrate(fs[i]) = StatedBitrate(fs[j])
              /\ StatedBitrate(fs[i]) > 0
              /\ "abr" \notin DOMAIN fs[k]

\* the height and frame rate of a format, an absent one counting as 0
StatedHeight(f) == IF "height" \in DOMAIN f THEN f["height"] ELSE 0
StatedFps(f) == IF "fps" \in DOMAIN f THEN f["fps"] ELSE 0

\* format a is displayed before format b: greater height, or the same height
\* and a greater frame rate
StatedBefore(a, b) ==
    \/ StatedHeight(a) > StatedHeight(b)
    \/ StatedHeight(a) = StatedHeight(b) /\ StatedFps(a) > StatedFps(b)

\* the position in the fetched list of a format shown (format ids are unique)
StatedPosition(f) ==
    CHOOSE i \in 1..Len(info["formats"]) : info["formats"][i] = f

\* q is the list fs of formats restricted to those satisfying keep[i], by
\* height descending, then frame rate descending, then original position
StatedOrdered(q, keep) ==
    /\ Len(q) = Cardinality(keep)
    /\ {q[k] : k \in 1..Len(q)} = {info["formats"][i] : i \in keep}
    /\ \A k, m \in 1..Len(q) :
          k < m =>
              \/ StatedBefore(q[k], q[m])
              \/ /\ ~StatedBefore(q[m], q[k])
                 /\ StatedPosition(q[k]) < StatedPosition(q[m])

\* the positions of the formats with a video codec
StatedVideo(fs) == {i \in 1..Len(fs) : fs[i]["vcodec"] # "none"}

\* C3: once the first call of get_quality_choice has numbered its list, the
\* list holds exactly the formats with a video codec, by height descending,
\* then frame rate descending (absent ones as 0), formats equal in both
\* keeping their order in the fetched list.
C3_QualityOrder ==
    (ret = "after_first" /\ pc \in {"quality_prompt", "after_first"}) =>
        StatedOrdered(qualities, StatedVideo(info["formats"]))

\* C3 witness: three video formats are shown at the first prompt, the sort
\* moved one of them forward, and two of them tie, one by an absent height
\* against an explicit 0.
C3_Witness ==
    /\ ret = "after_first" /\ pc = "quality_prompt"
    /\ Len(qualities) = 3
    /\ Len(info["formats"]) = 3
    /\ StatedPosition(qualities[1]) = 3
    /\ \E k \in 1..2 :
          /\ StatedHeight(qualities[k]) = StatedHeight(qualities[k + 1])
          /\ StatedFps(qualities[k]) = StatedFps(qualities[k + 1])
          /\ ("height" \in DOMAIN qualities[k])
                # ("height" \in DOMAIN qualities[k + 1])

\* the integer a typed line denotes, if any: optional surrounding blanks, an
\* optional sign, then decimal digits only
RECURSIVE StatedNumeral(_)
StatedNumeral(ds) ==
    IF Len(ds) = 1 THEN DigitValue(ds[1])
    ELSE DigitValue(ds[Len(ds)]) + 10 * StatedNumeral(SubSeq(ds, 1, Len(ds) - 1))

\* the digits of the integer written in the line l between the blanks
\* l[1..a] and l[b+1..], after its sign
StatedDigits(l, a, b) ==
    LET core == SubSeq(l, a + 1, b)
    IN  IF core # <<>> /\ core[1] \in {"-", "+"} THEN Tail(core) ELSE core

\* the ways to read the line l as an integer: the blanks around it
StatedReadings(l) ==
    {ab \in (0..Len(l)) \X (0..Len(l)) :
        /\ ab[1] <= ab[2]
        /\ \A i \in 1..ab[1] : l[i] = " "
        /\ \A i \in (ab[2] + 1)..Len(l) : l[i] = " "
        /\ StatedDigits(l, ab[1], ab[2]) # <<>>
        /\ \A i \in 1..Len(StatedDigits(l, ab[1], ab[2])) :
              StatedDigits(l, ab[1], ab[2])[i] \in Digits}

\* the integers the line l denotes: none, or one
StatedValues(l) ==
    {IF l[ab[1] + 1] = "-"
     THEN 0 - StatedNumeral(StatedDigits(l, ab[1], ab[2]))
     ELSE StatedNumeral(StatedDigits(l, ab[1], ab[2])) : ab \in StatedReadings(l)}

\* C4: at the quality prompt with n candidates, a line that denotes an
\* integer k in 1..n makes get_quality_choice return candidate number k; any
\* other line (not a number, or a number outside 1..n, 0 and the negative
\* ones included) returns nothing, prints the matching message and leaves
\* it at the prompt.
C4_PromptLoop ==
    [][(pc = "quality_prompt" /\ raised' = "") =>
          LET n == Len(qualities)
              denoted == StatedValues(line')
          IN  IF denoted \cap (1..n) # {}
              THEN /\ pc' = ret
                   /\ \A k \in denoted : result' = qualities[k]
              ELSE /\ pc' = "quality_prompt"
                   /\ result' = result
                   /\ qualities' = qualities
                   /\ IF denoted # {}
                      THEN OutOfRangeText(n) \in printed'
                      ELSE InvalidNumberText \in printed']_vars

\* C4 witness: with one candidate, a line that is no number and a number out
\* of range were rejected and the line "1" then returned candidate 1.
C4_Witness ==
    /\ pc = "returned"
    /\ Len(qualities) = 1
    /\ InvalidNumberText \in printed
    /\ OutOfRangeText(1) \in printed
    /\ line = <<"1">>
    /\ result = qualities[1]

\* the Extraction Service returned a list with no format that has a video
\* codec
StatedNoVideo == info # NoneValue /\ StatedVideo(info["formats"]) = {}

\* C5: when the fetched list has no format with a video codec, the user is
\* never prompted and the fallback menu never shown, get_quality_choice
\* returns None, and download_video returns normally: no exception, exit
\* status 0, and the download is never invoked.
C5_NoVideoAborts ==
    StatedNoVideo =>
        /\ QualityPrompt \notin printed
        /\ MenuText \notin printed
        /\ MenuPrompt \notin printed
        /\ download_calls = 0
        /\ raised = ""
        /\ exit_status = 0
        /\ pc \in {"choose_quality", "enumerate", "after_first", "exited"}
        /\ pc \in {"after_first", "exited"} => result = NoneValue
        /\ pc = "exited" => NoFormatText \in printed

\* C5 witness: a list of audio-only formats was fetched and the run is over.
C5_Witness ==
    /\ StatedNoVideo
    /\ Len(info["formats"]) = 2
    /\ pc = "exited"
    /\ NoFormatText \in printed

\* C6: started with no command-line argument, the program prints the usage
\* text and exits with status 1, and calls neither operation of the
\* Extraction Service.
C6_NoArguments ==
    Len(sys_argv) = 1 =>
        /\ extract_calls = 0
        /\ download_calls = 0
        /\ pc \in {"main", "exited"}
        /\ pc = "exited" => (exit_status = 1 /\ UsageText \in printed)

\* C6 witness: a run started with no argument has ended.
C6_Witness == Len(sys_argv) = 1 /\ pc = "exited" /\ printed = {UsageText}

\* C7: a run that ends by menu option 3 ends with exit status 1 and without
\* a download.
C7_MenuAbortExitStatus ==
    (pc = "exited" /\ raised = "" /\ menu_choice = <<"3">>) =>
        (exit_status = 1 /\ download_calls = 0)

\* C8: when the metadata query fails, the error is printed, the process has
\* ended with exit status 1 after that single query, and neither the quality
\* list or prompt nor the download was reached.
C8_FetchFailure ==
    extract_outcome = "DownloadError" =>
        /\ FetchErrorText \in printed
        /\ pc = "exited"
        /\ exit_status = 1
        /\ extract_calls = 1
        /\ QualityHeader \notin printed
        /\ QualityPrompt \notin printed
        /\ download_calls = 0

\* C8 witness: the metadata query failed.
C8_Witness == extract_outcome = "DownloadError" /\ extract_calls = 1

\* C9: after a failed download the error is printed, no completion message
\* is, and the process has ended with exit status 1 after that single call;
\* after a successful one the completion message with the video's title is
\* printed and the process has ended with exit status 0.
C9_DownloadOutcome ==
    /\ download_outcome = "DownloadError" =>
          /\ FailedText \in printed
          /\ \A t \in Titles : CompleteText(t) \notin printed
          /\ pc = "exited"
          /\ exit_status = 1
          /\ download_calls = 1
    /\ download_outcome = "ok" =>
          /\ ("Download complete: " \o info["title"]) \in printed
          /\ FailedText \notin printed
          /\ pc = "exited"
          /\ exit_status = 0
          /\ download_calls = 1
    /\ download_calls > 0 => download_outcome # ""

\* C9 witness: a download failed.
C9_Witness == download_outcome = "DownloadError" /\ FailedText \in printed

\* a further case of C9 that is reached: a download of "Clip B" succeeded
C9_ReachedComplete ==
    download_outcome = "ok" /\ "Download complete: Clip B" \in printed

\* the pieces a shell that splits at every '&' makes of the URL u
RECURSIVE StatedSplit(_, _)
StatedSplit(u, piece) ==
    IF u = <<>> THEN <<piece>>
    ELSE IF Head(u) = "&" THEN <<piece>> \o StatedSplit(Tail(u), <<>>)
         ELSE StatedSplit(Tail(u), Append(piece, Head(u)))

\* where argument i starts in the arguments laid end to end with one
\* character between neighbours
RECURSIVE StatedOffset(_, _)
StatedOffset(args, i) ==
    IF i = 1 THEN 0 ELSE StatedOffset(args, i - 1) + Len(args[i - 1]) + 1

\* the URLs a user may have typed
MaxUrlLen == 5
StatedUrls == SeqsUpTo(UrlChars, MaxUrlLen)

\* C10: the URL download_video is called with is the only argument if there
\* is one, and otherwise the arguments in order with a '&' between
\* neighbours; so if the arguments are the pieces of a URL split at every
\* '&', it is that URL.
C10_UrlReconstruction ==
    pc = "fetch_info" =>
        LET args == Tail(sys_argv)
            n == Len(args)
        IN  /\ n = 1 => url = args[1]
            /\ Len(url) = StatedOffset(args, n) + Len(args[n])
            /\ \A i \in 1..n :
                  /\ SubSeq(url, StatedOffset(args, i) + 1,
                            StatedOffset(args, i) + Len(args[i])) = args[i]
                  /\ i > 1 => url[StatedOffset(args, i)] = "&"
            /\ \A u \in StatedUrls : StatedSplit(u, <<>>) = args => url = u

\* C10 witness: the URL "v&&vv" reached the program as the three arguments
\* "v", "" and "vv", and download_video was called with "v&&vv".
C10_Witness ==
    /\ pc = "fetch_info"
    /\ Tail(sys_argv) = StatedSplit(<<"v", "&", "&", "v", "v">>, <<>>)
    /\ Len(sys_argv) = 4
    /\ url = <<"v", "&", "&", "v", "v">>

\* The states of the orchestrator, numbered in their stated order: 1
\* FETCH_INFO, 2 CHOOSE_QUALITY, 3 RESOLVE_MERGE_STRATEGY (the fallback menu
\* and the re-choice it starts included), 4 DOWNLOAD, 5 the terminals DONE and
\* ABORT; 0 is the command line, before the orchestrator is called.
StatedState ==
    CASE pc = "main" -> 0
      [] pc = "fetch_info" -> 1
      [] pc \in {"choose_quality", "after_first"} -> 2
      [] pc \in {"enumerate", "quality_prompt"} ->
            IF ret = "after_first" THEN 2 ELSE 3
      [] pc \in {"check_ffmpeg", "menu", "after_progressive"} -> 3
      [] pc = "download" -> 4
      [] pc = "exited" -> 5

StatedDone == pc = "exited" /\ download_outcome = "ok"
StatedAbort == pc = "exited" /\ download_outcome # "ok"

\* the format in use is one of the fetched formats
StatedChosen ==
    /\ chosen_format # NoneValue
    /\ \E i \in 1..Len(info["formats"]) : info["formats"][i] = chosen_format

\* what a run has behind it in each state
StatedPassed ==
    /\ StatedState >= 2 /\ pc # "exited" =>
            extract_calls = 1 /\ extract_outcome = "info"
    /\ StatedState \in {3, 4} => StatedChosen
    /\ StatedState = 4 => format_str # ""
    /\ StatedState < 5 => download_calls = 0 /\ download_outcome = ""
    /\ StatedDone =>
            /\ extract_calls = 1 /\ extract_outcome = "info"
            /\ StatedChosen
            /\ format_str # "" /\ download_arg = format_str
            /\ download_calls = 1
            /\ exit_status = 0
    /\ download_calls <= 1
    /\ download_calls = 1 =>
            /\ pc = "exited"
            /\ extract_outcome = "info"
            /\ StatedChosen

\* C11: a run moves through FETCH_INFO, CHOOSE_QUALITY,
\* RESOLVE_MERGE_STRATEGY, DOWNLOAD and a terminal in that order and never
\* back; it ends only in DONE or ABORT, which no step leaves, and every other
\* state has a step; the download is called at most once, and only after
\* the metadata query succeeded and a format was chosen.
C11_StateOrder ==
    /\ [](StatedPassed /\ (pc # "exited" => ENABLED Next))
    /\ [][/\ StatedState' >= StatedState
          /\ pc # "exited"
          /\ pc' = "exited" => (StatedDone' \/ StatedAbort')
          /\ StatedDone' => StatedState = 4]_vars

\* C11 witness: a run that went through the fallback menu and a second
\* choice has downloaded and ended in DONE.
C11_Witness ==
    /\ StatedDone
    /\ MenuText \in printed
    /\ menu_choice = <<"2">>
    /\ download_calls = 1

\* a format without an audio codec
StatedLacksAudio(f) == "acodec" \in DOMAIN f /\ f["acodec"] = "none"

\* the fetched list holds an audio-only format
StatedAudioExists == StatedAudioOnly(info["formats"]) # {}

\* the fetched list holds a progressive format: video and audio codec both
StatedProgressiveExists ==
    \E i \in StatedVideo(info["formats"]) :
        ~StatedLacksAudio(info["formats"][i])

\* a line of input without the blanks around it
StatedTrimmed(l) ==
    LET inked == {i \in 1..Len(l) : l[i] # " "}
    IN  IF inked = {} THEN <<>>
        ELSE SubSeq(l, CHOOSE i \in inked : \A j \in inked : i <= j,
                       CHOOSE i \in inked : \A j \in inked : i >= j)

\* the menu is on screen exactly when the Muxing Tool was found missing,
\* which is looked for exactly when the chosen format lacks audio and an
\* audio-only format exists
StatedMenuShown ==
    /\ MenuText \in printed <=> ffmpeg = "missing"
    /\ pc = "check_ffmpeg" =>
            StatedLacksAudio(chosen_format) /\ StatedAudioExists
    /\ ffmpeg # "unchecked" => StatedAudioExists
    /\ (pc = "download" /\ ffmpeg = "unchecked") =>
            ~(StatedLacksAudio(chosen_format) /\ StatedAudioExists)
    /\ (pc = "download" /\ ffmpeg = "available") =>
            StatedLacksAudio(chosen_format)
    /\ pc = "menu" => StatedLacksAudio(chosen_format) /\ download_calls = 0
    /\ (download_calls = 1 /\ menu_choice = <<"1">>) =>
            download_arg = chosen_format["format_id"]
    /\ menu_choice = <<"3">> => download_calls = 0

\* one line read at the menu
StatedMenuTurn ==
    (pc = "menu" /\ raised' = "") =>
        LET choice == StatedTrimmed(line')
        IN  /\ chosen_format' = chosen_format
            /\ download_calls' = 0
            /\ choice = <<"1">> =>
                    /\ pc' = "download"
                    /\ format_str' = chosen_format["format_id"]
            /\ choice = <<"2">> =>
                    /\ pc' = "enumerate"
                    /\ only_progressive'
                    /\ video_formats' = video_formats
            /\ choice = <<"3">> => pc' = "exited"
            /\ choice \notin {<<"1">>, <<"2">>, <<"3">>} =>
                    /\ pc' = "menu"
                    /\ format_str' = format_str
                    /\ InvalidMenuText \in printed'

\* the quality chooser run again from the menu
StatedRechoice ==
    /\ (pc = "enumerate" /\ only_progressive) =>
            IF StatedProgressiveExists
            THEN /\ pc' = "quality_prompt"
                 /\ qualities' # <<>>
                 /\ \A i \in 1..Len(qualities') :
                        /\ qualities'[i]["vcodec"] # "none"
                        /\ ~StatedLacksAudio(qualities'[i])
            ELSE /\ pc' = "after_progressive"
                 /\ result' = NoneValue
    /\ (pc = "after_progressive" /\ ~StatedProgressiveExists) =>
            /\ pc' = "menu"
            /\ chosen_format' = chosen_format
            /\ format_str' = format_str
            /\ download_calls' = 0
            /\ exit_status' = exit_status
            /\ NoProgressiveText \in printed'

\* C12: the fallback menu is presented exactly when the chosen format lacks
\* audio, an audio-only format exists and the Muxing Tool is missing.  At
\* the menu an input other than 1, 2 or 3 re-prompts and leaves the chosen
\* format alone; 1 goes on to download the video-only format; 2 runs the
\* quality chooser on the progressive formats and, when there is none,
\* comes back to the menu without a download or an end of the run; 3 ends
\* the run without a download.
C12_FallbackMenu ==
    /\ []StatedMenuShown
    /\ [][StatedMenuTurn /\ StatedRechoice]_vars

\* C12 witness: option 2 was taken with no progressive format in the list
\* and the menu is back.
C12_Witness ==
    /\ pc = "menu"
    /\ menu_choice = <<"2">>
    /\ NoProgressiveText \in printed
    /\ ~StatedProgressiveExists

\* C12: option 1 was taken and the video-only format downloaded.
C12_ReachedVideoOnly ==
    /\ download_calls = 1
    /\ line = <<"1">>
    /\ menu_choice = <<"1">>
    /\ download_arg = "137"

\* a format whose audio codec is present
StatedHasAudio(f) == ~StatedLacksAudio(f)

\* the positions of the progressive formats: video codec and audio codec
StatedProgressive(fs) == {i \in StatedVideo(fs) : StatedHasAudio(fs[i])}

\* C13: when get_quality_choice is called with the progressive restriction,
\* the list it numbers is the list numbered by the unrestricted call before
\* it with the entries that have no audio codec left out and nothing else
\* changed: the same formats in the same order (height descending, frame
\* rate descending, ties in fetched order), numbered from 1 without gaps.
C13_ProgressiveRestriction ==
    [][(pc = "enumerate" /\ only_progressive) =>
            /\ StatedOrdered(qualities, StatedVideo(info["formats"]))
            /\ qualities' = SelectSeq(qualities, StatedHasAudio)
            /\ StatedOrdered(qualities', StatedProgressive(info["formats"]))
            /\ DOMAIN qualities' = 1..Cardinality(StatedProgressive(info["formats"]))
      ]_vars

\* C13 witness: the restricted list is on screen with two formats; the
\* unrestricted one had three, its first a video-only format moved to the
\* front by the sort, so both kept formats were renumbered.
C13_Witness ==
    /\ pc = "quality_prompt" /\ only_progressive
    /\ Len(video_formats) = 3
    /\ StatedLacksAudio(video_formats[1])
    /\ StatedPosition(video_formats[1]) > 1
    /\ qualities = <<video_formats[2], video_formats[3]>>
    /\ StatedHeight(qualities[1]) > StatedHeight(qualities[2])

\* x asks for a merge: "<video_id>+<audio_id>/bestaudio" over the ids of the
\* fetched formats
StatedMergeForm(x) ==
    \E i, j \in 1..Len(info["formats"]) :
        x = info["formats"][i]["format_id"] \o "+"
                \o info["formats"][j]["format_id"] \o "/bestaudio"

\* x asks for no merge: "<video_id>" or "<video_id>/best" of the format in use
StatedPlainForm(x) ==
    \/ x = chosen_format["format_id"]
    \/ x = chosen_format["format_id"] \o "/best"

\* C14: a download is called (or about to be) with a merge expression only
\* if the check for the Muxing Tool was made in this run and found it; when
\* the check found it missing, the expression is the bare video id or the
\* video id with "/best".
C14_NoImpossibleMerge ==
    /\ pc = "download" =>
            /\ StatedMergeForm(format_str) => ffmpeg = "available"
            /\ ffmpeg = "missing" => StatedPlainForm(format_str)
    /\ download_calls = 1 =>
            /\ StatedMergeForm(download_arg) => ffmpeg = "available"
            /\ ffmpeg = "missing" => StatedPlainForm(download_arg)
            /\ StatedMergeForm(download_arg) \/ StatedPlainForm(download_arg)

\* C14 witness: the tool was found and the download called with a merge
\* expression.
C14_Witness ==
    /\ download_calls = 1
    /\ ffmpeg = "available"
    /\ StatedMergeForm(download_arg)
    /\ download_arg = "137+251/bestaudio"

\* C14: the tool was missing and the download was called all the same, with
\* the bare id after option 1 and with "/best" after option 2.
C14_ReachedWithoutTool ==
    /\ download_calls = 1
    /\ ffmpeg = "missing"
    /\ download_arg \in {"137", "22/best"}

\* x is a format expression on the video id of the format f
StatedExpressionOn(x, f) ==
    \/ x = f["format_id"]
    \/ x = f["format_id"] \o "/best"
    \/ \E j \in StatedAudioOnly(info["formats"]) :
          x = f["format_id"] \o "+" \o info["formats"][j]["format_id"]
                \o "/bestaudio"

\* f is a format of the fetched list that has a video codec
StatedVideoFormat(f) ==
    \E i \in StatedVideo(info["formats"]) : info["formats"][i] = f

\* the format in use at the download
StatedInUse ==
    /\ pc = "download" =>
            /\ StatedVideoFormat(chosen_format)
            /\ StatedExpressionOn(format_str, chosen_format)
    /\ download_calls = 1 =>
            /\ StatedVideoFormat(chosen_format)
            /\ StatedExpressionOn(download_arg, chosen_format)
            /\ line # <<"1">> => chosen_format = result
            /\ menu_choice = <<"2">> =>
                    /\ chosen_format = result
                    /\ StatedHasAudio(chosen_format)
                    /\ download_arg = chosen_format["format_id"] \o "/best"

\* the selections: a selection is the numbered format whose number the user
\* typed; only a selection, or a call that finds nothing to list, changes the
\* returned format, and the format in use changes only to a selection when
\* the call returns
StatedSelection ==
    /\ result' # result =>
            \/ /\ pc = "quality_prompt"
               /\ \E k \in StatedValues(line') \cap (1..Len(qualities)) :
                      result' = qualities[k]
            \/ pc = "enumerate" /\ result' = NoneValue
    /\ chosen_format' # chosen_format =>
            /\ pc \in {"after_first", "after_progressive"}
            /\ chosen_format' = result
            /\ result # NoneValue
    /\ pc = "after_first" => chosen_format' = result
    /\ (pc = "after_progressive" /\ result # NoneValue) =>
            /\ chosen_format' = result
            /\ chosen_format' # chosen_format
            /\ StatedHasAudio(chosen_format')
            /\ StatedLacksAudio(chosen_format)
            /\ format_str' = result["format_id"] \o "/best"
            /\ ~StatedExpressionOn(format_str', chosen_format)

\* C15: at the download the video id of the format expression is the
\* format_id of the format the user selected last, a format of the fetched
\* list with a video codec; after option 2 led to a selection that format
\* has an audio codec too and the first selection is out of use.
C15_SelectedFormatUsed ==
    /\ []StatedInUse
    /\ [][StatedSelection]_vars

\* C15 witness: format 137 was selected first, option 2 taken, format 18
\* selected, and the download called on 18.
C15_Witness ==
    /\ download_calls = 1
    /\ menu_choice = <<"2">>
    /\ chosen_format = F18
    /\ download_arg = "18/best"
    /\ \E i \in 1..Len(info["formats"]) : info["formats"][i] = F137

\* C16: the orchestrator cannot get stuck.  At the fallback menu options 1
\* and 3 are always open, with or without a progressive format, and lead to
\* the download and to the end of the run; at a quality prompt a listed
\* number is always open; and with a user who in the end types a listed
\* number at each quality prompt and 1, 3 or a 2 that finds a progressive
\* format at the menu, and collaborators that return, every run reaches
\* DONE or ABORT from wherever it is.
C16_Terminates ==
    /\ [](pc = "menu" =>
            /\ ENABLED (ReadMenu(<<"1">>) /\ pc' = "download")
            /\ ENABLED (ReadMenu(<<"3">>) /\ pc' = "exited"))
    /\ [](pc = "quality_prompt" => ENABLED SelectsQuality)
    /\ (pc # "exited") ~> (StatedDone \/ StatedAbort)

\* C16 witness: with no progressive format, option 2 came back to the menu
\* and the run then ended by option 1 and its download, or by option 3.
C16_Witness ==
    /\ pc = "exited"
    /\ NoProgressiveText \in printed
    /\ ~StatedProgressiveExists
    /\ \/ menu_choice = <<"1">> /\ download_calls = 1
       \/ menu_choice = <<"3">> /\ download_calls = 0

=============================================================================
